---- MODULE Spec2Model ----
(***************************************************************************)
(* Resumable stage pipeline of the article generator: the CheckpointManager *)
(* store (src/src/checkpoint_manager.py) and CrewManager.run_with_retry     *)
(* with its tenacity retry decorator (src/src/crew_manager.py).             *)
(*                                                                          *)
(* Strings that are only compared (topics, task names, agent roles) are     *)
(* TLA+ strings.  Task outputs, which _clean_output rewrites character by   *)
(* character, are sequences of one-character strings.                       *)
(***************************************************************************)
EXTENDS Integers, Sequences, FiniteSets, TLC

VARIABLES
    checkpoints,        \* CheckpointManager.checkpoints: topic -> task -> checkpoint
    current_topic,      \* CheckpointManager.current_topic
    now,                \* the wall clock read by datetime.now(); no operation here waits for it
    pc,                 \* position of the caller of run_with_retry
    topic,              \* argument topic of the invocation in flight
    force_restart,      \* argument force_restart of the invocation in flight
    attempt_number,     \* tenacity retry_state.attempt_number
    stage,              \* index in task_order of the task being handled
    outputs,            \* locals plan_output / write_output / edit_output of the attempt
    context,            \* context handed to the executor call in flight
    sleep,              \* tenacity retry_state.next_action.sleep of the pending retry
    exception,          \* the exception the attempt ended with (tenacity retry_state.outcome)
    outcome,            \* how the invocation ended
    result,             \* value returned by run_with_retry
    pre,                \* history: tasks checkpointed for topic when the invocation was called
    calls,              \* history: executor invocations per task in this invocation (see Count)
    completions,        \* history: successful executor returns per task in this invocation
    attempt_calls,      \* history: tasks whose executor was invoked in this attempt, in order
    waits,              \* history: the backoff waits of this invocation, in order
    raw,                \* history: what each executor returned in this attempt, uncleaned
    rate_limit_errors,  \* history: RateLimitErrors raised in this invocation
    given_text,         \* the str a caller hands to _clean_output
    cleaned_result,     \* local cleaned_result: what _clean_output returned
    session_state,      \* app.py: st.session_state of the browser session
    observer,           \* a second thread reading the store: its position and locals
    called,             \* history: the last call a client made on the manager, with its arguments
    environ,            \* os.environ[provider_env_map[provider]] of the process
    crews               \* the CrewManagers of one process that run side by side: position and keys

vars == <<checkpoints, current_topic, now, pc, topic, force_restart, attempt_number,
          stage, outputs, context, sleep, exception, outcome, result, pre, calls,
          completions, attempt_calls, waits, raw, rate_limit_errors, given_text,
          cleaned_result, session_state, observer, called,
          environ, crews>>

store_vars == <<checkpoints, current_topic>>

\* what a call of run_with_retry or of the store leaves alone
outside_vars == <<given_text, cleaned_result, session_state, observer, called,
                  environ, crews>>

(***************************************************************************)
(* Bounds of the model                                                      *)
(***************************************************************************)
\* number of raw executor results the executors may return
MaxRaw == 2
\* number of pieces a str handed to _clean_output is put together from
MaxPieces == 3
\* attempt numbers for which the backoff wait is computed
MaxAttemptNumber == 8

(***************************************************************************)
(* Program constants                                                        *)
(***************************************************************************)
RETRY_MULTIPLIER == 2
RETRY_MIN_WAIT == 4
RETRY_MAX_WAIT == 120
RETRY_MAX_ATTEMPTS == 5

\* Python None where a str is optional (current_topic, topic argument)
None == "<None>"

\* the topic strings callers pass; "" is the empty str
TopicList == <<"A", "B", "">>
Topics == {TopicList[i] : i \in 1..Len(TopicList)}

\* Optional task output: <<>> is None, <<s>> is the str s
NoOutput == <<>>
Some(s) == <<s>>

task_order == <<"plan", "write", "edit">>
Tasks == {task_order[i] : i \in 1..Len(task_order)}
\* index of a task in task_order
Index(task) == CHOOSE i \in 1..Len(task_order) : task_order[i] = task

\* agent.role of the agent run_with_retry creates for each task
Role(task) ==
    CASE task = "plan" -> "Content Strategist & Story Architect"
      [] task = "write" -> "Narrative Writer"
      [] task = "edit" -> "Story Editor"

\* Python truthiness of an Optional[str] topic: None and "" are falsy
Truthy(t) == t # None /\ t # ""

(***************************************************************************)
(* CrewManager._clean_output                                                *)
(***************************************************************************)
OpenTag == <<"<", "t", "h", "i", "n", "k", ">">>
CloseTag == <<"<", "/", "t", "h", "i", "n", "k", ">">>
Whitespace == {" ", "\n"}

\* re.IGNORECASE folding of the letters the tags are made of
Lower(c) ==
    CASE c = "T" -> "t" [] c = "H" -> "h" [] c = "I" -> "i"
      [] c = "N" -> "n" [] c = "K" -> "k" [] OTHER -> c

\* the literal pat matches s at position i, ignoring case
MatchAt(s, i, pat) ==
    /\ i + Len(pat) - 1 <= Len(s)
    /\ \A k \in 1..Len(pat) : Lower(s[i + k - 1]) = pat[k]

Min(S) == CHOOSE x \in S : \A y \in S : x <= y

\* re.sub(r'<think>.*?</think>', '', s, DOTALL | IGNORECASE) from position i on
RECURSIVE SubBlocks(_, _)
SubBlocks(s, i) ==
    IF i > Len(s) THEN <<>>
    ELSE LET closers == {j \in (i + Len(OpenTag))..Len(s) : MatchAt(s, j, CloseTag)}
         IN  IF MatchAt(s, i, OpenTag) /\ closers # {}
             THEN SubBlocks(s, Min(closers) + Len(CloseTag))
             ELSE <<s[i]>> \o SubBlocks(s, i + 1)

\* re.sub(r'</?think>', '', s, IGNORECASE) from position i on
RECURSIVE SubTags(_, _)
SubTags(s, i) ==
    IF i > Len(s) THEN <<>>
    ELSE IF MatchAt(s, i, OpenTag) THEN SubTags(s, i + Len(OpenTag))
    ELSE IF MatchAt(s, i, CloseTag) THEN SubTags(s, i + Len(CloseTag))
    ELSE <<s[i]>> \o SubTags(s, i + 1)

\* length of the run of newlines of s that starts at position i
RECURSIVE NewlineRun(_, _)
NewlineRun(s, i) ==
    IF i > Len(s) \/ s[i] # "\n" THEN 0 ELSE 1 + NewlineRun(s, i + 1)

\* re.sub(r'\n{3,}', '\n\n', s) from position i on
RECURSIVE SubNewlines(_, _)
SubNewlines(s, i) ==
    IF i > Len(s) THEN <<>>
    ELSE IF NewlineRun(s, i) >= 3
         THEN <<"\n", "\n">> \o SubNewlines(s, i + NewlineRun(s, i))
         ELSE <<s[i]>> \o SubNewlines(s, i + 1)

\* a strip that leaves trailing whitespace in place (str.lstrip)
lstrip(s) ==
    LET keep == {i \in 1..Len(s) : s[i] \notin Whitespace}
    IN  IF keep = {} THEN <<>> ELSE SubSeq(s, Min(keep), Len(s))

\* str.strip()
strip(s) ==
    LET keep == {i \in 1..Len(s) : s[i] \notin Whitespace}
    IN  IF keep = {} THEN <<>>
        ELSE SubSeq(s, Min(keep), CHOOSE x \in keep : \A y \in keep : y <= x)

_clean_output(text) ==
    strip(SubNewlines(SubTags(SubBlocks(text, 1), 1), 1))

\* raw results the stage executors (agent.execute_task) may return
RawCandidates ==
    << <<" ", "a", "\n">>,
       <<"<", "t", "h", "i", "n", "k", ">", "s", "<", "/", "t", "h", "i", "n", "k", ">">>,
       <<"b", "<", "/", "T", "H", "I", "N", "K", ">">> >>
RawOutputs == {RawCandidates[i] : i \in 1..MaxRaw}

\* _clean_output of every raw result, computed once
Cleaned == [r \in RawOutputs |-> _clean_output(r)]

(***************************************************************************)
(* CheckpointManager, as functions of the store (cp) and the active topic   *)
(* (cur); the operations that write return the new store                    *)
(***************************************************************************)
EmptyMap == [t \in {} |-> {}]

\* dict item assignment d[k] = v
Put(d, k, v) == [x \in DOMAIN d \cup {k} |-> IF x = k THEN v ELSE d[x]]

\* del d[k]
Del(d, k) == [x \in DOMAIN d \ {k} |-> d[x]]

\* set_topic: the store after self.checkpoints[topic] = {} for an unseen topic
\* set_topic that starts the topic from an empty stage map every time
set_topic_reset(cp, t) == Put(cp, t, EmptyMap)

set_topic(cp, t) ==
    IF t \notin DOMAIN cp THEN Put(cp, t, EmptyMap) ELSE cp

\* a checkpoint entry put into the store with its output alone, the other
\* fields to follow
Checkpoint_output_first(output, agent_name, time) == [output |-> output]

\* a checkpoint entry stored before the task is marked completed
Checkpoint_pending(output, agent_name, time) ==
    [output |-> output, agent |-> agent_name, timestamp |-> time, completed |-> FALSE]

\* the dict literal save_checkpoint stores
Checkpoint(output, agent_name, time) ==
    [output |-> output, agent |-> agent_name, timestamp |-> time, completed |-> TRUE]

save_checkpoint(cp, cur, task_name, output, agent_name, time) ==
    IF ~Truthy(cur) THEN cp
    ELSE LET cp1 == IF cur \notin DOMAIN cp THEN Put(cp, cur, EmptyMap) ELSE cp
         IN  Put(cp1, cur, Put(cp1[cur], task_name, Checkpoint(output, agent_name, time)))

\* get_checkpoint that looks the first task up, whatever task is asked for
get_checkpoint_first_task(cp, cur, task_name) ==
    IF ~Truthy(cur) \/ cur \notin DOMAIN cp THEN <<>>
    ELSE IF "plan" \in DOMAIN cp[cur] THEN <<cp[cur]["plan"]>> ELSE <<>>

\* get_checkpoint: <<>> stands for None, <<c>> for the checkpoint c
get_checkpoint(cp, cur, task_name) ==
    IF ~Truthy(cur) \/ cur \notin DOMAIN cp THEN <<>>
    ELSE IF task_name \in DOMAIN cp[cur] THEN <<cp[cur][task_name]>> ELSE <<>>

\* has_checkpoint that finds nothing
has_checkpoint_never(cp, cur, task_name) == FALSE

has_checkpoint(cp, cur, task_name) ==
    IF ~Truthy(cur) \/ cur \notin DOMAIN cp THEN FALSE
    ELSE /\ task_name \in DOMAIN cp[cur]
         /\ "completed" \in DOMAIN cp[cur][task_name]
         /\ cp[cur][task_name].completed

get_all_checkpoints(cp, cur) ==
    IF ~Truthy(cur) THEN EmptyMap
    ELSE IF cur \in DOMAIN cp THEN cp[cur] ELSE EmptyMap

\* clear_checkpoints that empties the whole store
clear_checkpoints_every_topic(cp, cur, t) == EmptyMap

\* clear_checkpoints that removes only the first task's entry of the topic
clear_checkpoints_first_task(cp, cur, t) ==
    LET target_topic == IF Truthy(t) THEN t ELSE cur
    IN  IF Truthy(target_topic) /\ target_topic \in DOMAIN cp
        THEN Put(cp, target_topic, Del(cp[target_topic], "plan"))
        ELSE cp

\* clear_checkpoints(topic): target_topic = topic or self.current_topic
clear_checkpoints(cp, cur, t) ==
    LET target_topic == IF Truthy(t) THEN t ELSE cur
    IN  IF Truthy(target_topic) /\ target_topic \in DOMAIN cp
        THEN Del(cp, target_topic)
        ELSE cp

\* get_latest_completed_task that scans task_order forwards
get_latest_completed_task_forwards(cp, cur) ==
    IF ~Truthy(cur) \/ cur \notin DOMAIN cp THEN None
    ELSE LET completed_tasks == {n \in DOMAIN cp[cur] : cp[cur][n].completed}
             found == {i \in 1..Len(task_order) : task_order[i] \in completed_tasks}
         IN  IF found = {} THEN None
             ELSE task_order[CHOOSE i \in found : \A j \in found : i <= j]

\* get_latest_completed_task that answers the first task when there is no topic
get_latest_completed_task_unguarded(cp, cur) ==
    IF ~Truthy(cur) \/ cur \notin DOMAIN cp THEN task_order[1]
    ELSE LET completed_tasks == {n \in DOMAIN cp[cur] : cp[cur][n].completed}
             found == {i \in 1..Len(task_order) : task_order[i] \in completed_tasks}
         IN  IF found = {} THEN None
             ELSE task_order[CHOOSE i \in found : \A j \in found : j <= i]

\* get_latest_completed_task: None, or the last task of task_order that is completed
get_latest_completed_task(cp, cur) ==
    IF ~Truthy(cur) \/ cur \notin DOMAIN cp THEN None
    ELSE LET completed_tasks == {n \in DOMAIN cp[cur] : cp[cur][n].completed}
             found == {i \in 1..Len(task_order) : task_order[i] \in completed_tasks}
         IN  IF found = {} THEN None
             ELSE task_order[CHOOSE i \in found : \A j \in found : j <= i]

(***************************************************************************)
(* tenacity retry policy of run_with_retry                                  *)
(***************************************************************************)
Max2(a, b) == IF a >= b THEN a ELSE b
Min2(a, b) == IF a <= b THEN a ELSE b

\* wait_exponential that takes min for the base of the progression
wait_exponential_min_as_base(n) ==
    Min2(RETRY_MAX_WAIT, RETRY_MIN_WAIT * RETRY_MULTIPLIER ^ (n - 1))

\* wait_exponential without the clamp to [min, max]
wait_exponential_unclamped(n) == RETRY_MULTIPLIER * 2 ^ (n - 1)

\* wait_exponential(multiplier, min, max) after failed attempt n (exp_base 2):
\* max(max(0, min), min(multiplier * 2 ** (n - 1), max))
wait_exponential(n) ==
    Max2(Max2(0, RETRY_MIN_WAIT), Min2(RETRY_MULTIPLIER * 2 ^ (n - 1), RETRY_MAX_WAIT))

\* a stop condition that gives up one attempt early
stop_after_attempt_early(n) == n >= RETRY_MAX_ATTEMPTS - 1

\* stop_after_attempt that allows one attempt more
stop_after_attempt_late(n) == n >= RETRY_MAX_ATTEMPTS + 1

\* stop_after_attempt(RETRY_MAX_ATTEMPTS)
stop_after_attempt(n) == n >= RETRY_MAX_ATTEMPTS

\* a retry predicate that retries on every exception
retry_if_exception_type_any(e) == TRUE

\* retry_if_exception_type(RateLimitError)
retry_if_exception_type(e) == e = "RateLimitError"

(***************************************************************************)
(* CrewManager.run_with_retry                                               *)
(***************************************************************************)
NoOutputs == [t \in Tasks |-> NoOutput]
NoCalls == [t \in Tasks |-> 0]

\* the history counts tell 0, 1 and "more than once" (2) apart
Count(n) == IF n < 2 THEN n + 1 ELSE 2

\* the CrewManagers of one process, as the Streamlit sessions of one server
Managers == {1, 2}

\* a key variable the environment does not define (config.py reads it as "")
Unset == ""

\* no CrewManager of the process is inside run_with_retry
NoCrews == [m \in Managers |-> [pc |-> "idle", agents_key |-> None,
                                used |-> [t \in Tasks |-> None]]]

\* a CrewManager after construction, no run_with_retry called yet
NewManager ==
    /\ checkpoints = EmptyMap
    /\ current_topic = None
    /\ now = 0
    /\ pc = "idle"
    /\ topic = None
    /\ force_restart = FALSE
    /\ attempt_number = 0
    /\ stage = 0
    /\ outputs = NoOutputs
    /\ context = NoOutput
    /\ sleep = 0
    /\ exception = "none"
    /\ outcome = "none"
    /\ result = NoOutput
    /\ pre = {}
    /\ calls = NoCalls
    /\ completions = NoCalls
    /\ attempt_calls = <<>>
    /\ waits = <<>>
    /\ raw = NoOutputs
    /\ rate_limit_errors = 0

\* st.session_state as app.py initialises it
NewSession ==
    [current_topic |-> None, generation_in_progress |-> FALSE, generated_content |-> NoOutput]

\* no second thread
NoObserver == [pc |-> "off"]

\* no call made yet
NoCall == [op |-> "none", topic |-> None, task_name |-> "none", output |-> NoOutput]

Init ==
    /\ NewManager
    /\ given_text = <<>>
    /\ cleaned_result = NoOutput
    /\ session_state = NewSession
    /\ observer = NoObserver
    /\ called = NoCall
    /\ environ = Unset
    /\ crews = NoCrews

\* the tasks the store holds a checkpoint of under topic t
Checkpointed(cp, t) == IF t \in DOMAIN cp THEN DOMAIN cp[t] ELSE {}

\* the store once an attempt has run set_topic(topic) and, under force_restart,
\* clear_checkpoints(topic)
EnterStore(cp, t, force) ==
    LET cp1 == set_topic(cp, t)
    IN  IF force THEN clear_checkpoints(cp1, t, t) ELSE cp1

\* the head of an attempt, up to the try block: the locals are unset, plan is next
Enter(t, force) ==
    /\ current_topic' = t
    /\ checkpoints' = EnterStore(checkpoints, t, force)
    /\ stage' = 1
    /\ outputs' = NoOutputs
    /\ context' = NoOutput
    /\ exception' = "none"
    /\ attempt_calls' = <<>>
    /\ raw' = NoOutputs
    /\ pc' = "check"

\* a caller invokes run_with_retry(topic, ..., force_restart): first attempt
Call(t, force) ==
    /\ pc = "idle"
    /\ topic' = t
    /\ force_restart' = force
    /\ attempt_number' = 1
    /\ pre' = Checkpointed(checkpoints, t)
    /\ Enter(t, force)
    /\ UNCHANGED <<now, sleep, outcome, result, calls, completions, waits,
                   rate_limit_errors>>
    /\ UNCHANGED outside_vars

\* what follows a task whose output is out: the next task, or return edit_output
Advance(out) ==
    /\ outputs' = [outputs EXCEPT ![task_order[stage]] = Some(out)]
    /\ IF stage = Len(task_order)
       THEN /\ pc' = "done"
            /\ outcome' = "returned"
            /\ result' = Some(out)
            /\ stage' = stage
       ELSE /\ pc' = "check"
            /\ stage' = stage + 1
            /\ UNCHANGED <<outcome, result>>

\* if has_checkpoint(task): use the checkpoint's output, no executor call
Skip ==
    /\ pc = "check"
    /\ has_checkpoint(checkpoints, current_topic, task_order[stage])
    /\ Advance(get_checkpoint(checkpoints, current_topic, task_order[stage])[1].output)
    /\ UNCHANGED <<store_vars, now, topic, force_restart, attempt_number, context, sleep,
                   exception, pre, calls, completions, attempt_calls, waits, raw,
                   rate_limit_errors>>
    /\ UNCHANGED outside_vars

\* the context argument of agent.execute_task: the previous task's output when truthy
ContextFor(i) ==
    IF i = 1 THEN NoOutput
    ELSE IF outputs[task_order[i - 1]] # NoOutput /\ outputs[task_order[i - 1]][1] # <<>>
         THEN outputs[task_order[i - 1]]
         ELSE NoOutput

\* a run_with_retry that calls the executor without asking has_checkpoint
Invoke_unguarded ==
    /\ pc = "check"
    /\ pc' = "exec"
    /\ context' = ContextFor(stage)
    /\ calls' = [calls EXCEPT ![task_order[stage]] = Count(@)]
    /\ attempt_calls' = Append(attempt_calls, task_order[stage])
    /\ UNCHANGED <<store_vars, now, topic, force_restart, attempt_number, stage, outputs,
                   sleep, exception, outcome, result, pre, completions, waits, raw,
                   rate_limit_errors>>
    /\ UNCHANGED outside_vars

\* else: _execute_task_with_checkpoint calls agent.execute_task
Invoke ==
    /\ pc = "check"
    /\ ~has_checkpoint(checkpoints, current_topic, task_order[stage])
    /\ pc' = "exec"
    /\ context' = ContextFor(stage)
    /\ calls' = [calls EXCEPT ![task_order[stage]] = Count(@)]
    /\ attempt_calls' = Append(attempt_calls, task_order[stage])
    /\ UNCHANGED <<store_vars, now, topic, force_restart, attempt_number, stage, outputs,
                   sleep, exception, outcome, result, pre, completions, waits, raw,
                   rate_limit_errors>>
    /\ UNCHANGED outside_vars

\* a _execute_task_with_checkpoint that saves and returns r as the executor gave it
ExecReturn_raw(r) ==
    /\ pc = "exec"
    /\ checkpoints' = save_checkpoint(checkpoints, current_topic, task_order[stage],
                                      r, Role(task_order[stage]), now)
    /\ completions' = [completions EXCEPT ![task_order[stage]] = Count(@)]
    /\ raw' = [raw EXCEPT ![task_order[stage]] = Some(r)]
    /\ Advance(r)
    /\ UNCHANGED <<current_topic, now, topic, force_restart, attempt_number, context, sleep,
                   exception, pre, calls, attempt_calls, waits, rate_limit_errors>>
    /\ UNCHANGED outside_vars

\* agent.execute_task returns r: clean it, save the checkpoint, go on
ExecReturn(r) ==
    /\ pc = "exec"
    /\ checkpoints' = save_checkpoint(checkpoints, current_topic, task_order[stage],
                                      Cleaned[r], Role(task_order[stage]), now)
    /\ completions' = [completions EXCEPT ![task_order[stage]] = Count(@)]
    /\ raw' = [raw EXCEPT ![task_order[stage]] = Some(r)]
    /\ Advance(Cleaned[r])
    /\ UNCHANGED <<current_topic, now, topic, force_restart, attempt_number, context, sleep,
                   exception, pre, calls, attempt_calls, waits, rate_limit_errors>>
    /\ UNCHANGED outside_vars

\* an except clause that swallows e and lets run_with_retry return an empty str
ExecRaise_swallowed(e) ==
    /\ pc = "exec"
    /\ exception' = e
    /\ rate_limit_errors' = IF e = "RateLimitError" THEN rate_limit_errors + 1
                            ELSE rate_limit_errors
    /\ pc' = "done"
    /\ outcome' = "returned"
    /\ result' = Some(<<>>)
    /\ UNCHANGED <<store_vars, now, topic, force_restart, attempt_number, stage, outputs,
                   context, sleep, waits, pre, calls, completions, attempt_calls, raw>>
    /\ UNCHANGED outside_vars

\* agent.execute_task raises e; both except clauses re-raise it, and the
\* retry decorator either re-raises it (not a RateLimitError), gives up with
\* RetryError (stop_after_attempt) or sleeps wait_exponential before the next attempt
ExecRaise(e) ==
    /\ pc = "exec"
    /\ exception' = e
    /\ rate_limit_errors' = IF e = "RateLimitError" THEN rate_limit_errors + 1
                            ELSE rate_limit_errors
    /\ IF ~retry_if_exception_type(e)
       THEN /\ pc' = "done"
            /\ outcome' = e
            /\ UNCHANGED <<sleep, waits>>
       ELSE IF stop_after_attempt(attempt_number)
       THEN /\ pc' = "done"
            /\ outcome' = "RetryError"
            /\ UNCHANGED <<sleep, waits>>
       ELSE /\ pc' = "sleep"
            /\ sleep' = wait_exponential(attempt_number)
            /\ waits' = Append(waits, wait_exponential(attempt_number))
            /\ UNCHANGED outcome
    /\ UNCHANGED <<store_vars, now, topic, force_restart, attempt_number, stage, outputs,
                   context, result, pre, calls, completions, attempt_calls, raw>>
    /\ UNCHANGED outside_vars

\* the backoff sleep is over: tenacity calls run_with_retry again, same arguments
Retry ==
    /\ pc = "sleep"
    /\ attempt_number' = attempt_number + 1
    /\ sleep' = 0
    /\ Enter(topic, force_restart)
    /\ UNCHANGED <<now, topic, force_restart, outcome, result, pre, calls, completions,
                   waits, rate_limit_errors>>
    /\ UNCHANGED outside_vars

\* the caller has the return value or the exception; the invocation is over
Finish ==
    /\ pc = "done"
    /\ pc' = "idle"
    /\ topic' = None
    /\ force_restart' = FALSE
    /\ attempt_number' = 0
    /\ stage' = 0
    /\ outputs' = NoOutputs
    /\ context' = NoOutput
    /\ sleep' = 0
    /\ exception' = "none"
    /\ outcome' = "none"
    /\ result' = NoOutput
    /\ pre' = {}
    /\ calls' = NoCalls
    /\ completions' = NoCalls
    /\ attempt_calls' = <<>>
    /\ waits' = <<>>
    /\ raw' = NoOutputs
    /\ rate_limit_errors' = 0
    /\ UNCHANGED <<store_vars, now>>
    /\ UNCHANGED outside_vars

run_vars == <<pc, topic, force_restart, attempt_number, stage, outputs, context, sleep,
              exception, outcome, result, pre, calls, completions, attempt_calls, waits,
              raw, rate_limit_errors>>

\* a caller invokes checkpoint_manager.clear_checkpoints(t) between invocations
ClearCheckpoints(t) ==
    /\ pc = "idle"
    /\ checkpoints' = clear_checkpoints(checkpoints, current_topic, t)
    /\ UNCHANGED <<current_topic, now, run_vars>>
    /\ UNCHANGED outside_vars

\* a caller invokes checkpoint_manager.clear_all_checkpoints() between invocations
ClearAllCheckpoints ==
    /\ pc = "idle"
    /\ checkpoints' = EmptyMap
    /\ current_topic' = None
    /\ UNCHANGED <<now, run_vars>>
    /\ UNCHANGED outside_vars

\* where the invocation of run_with_retry stands
Running == pc \in {"check", "exec", "sleep"}
Returned == pc = "done" /\ outcome = "returned"
Failed == pc = "done" /\ outcome # "returned"

Exceptions == {"RateLimitError", "Exception"}

Step ==
    \/ Skip
    \/ Invoke
    \/ \E r \in RawOutputs : ExecReturn(r)
    \/ \E e \in Exceptions : ExecRaise(e)
    \/ Retry
    \/ Finish

Next ==
    \/ \E force \in BOOLEAN, i \in 1..Len(TopicList) : Call(TopicList[i], force)
    \/ Step
    \/ \E t \in Topics \cup {None} : ClearCheckpoints(t)
    \/ ClearAllCheckpoints

Spec == Init /\ [][Next]_vars

\* One manager used for one topic at a time, where an invocation in flight keeps
\* running: every executor call and every sleep returns
RetryTopicList == <<"A", "">>

RetryNext ==
    \/ \E force \in BOOLEAN, i \in 1..Len(RetryTopicList) : Call(RetryTopicList[i], force)
    \/ Step

RetrySpec == Init /\ [][RetryNext]_vars /\ WF_vars(Step)

(***************************************************************************)
(* _clean_output called on its own                                          *)
(***************************************************************************)
\* the pieces the strs handed to _clean_output are put together from
Pieces ==
    << <<"a">>,
       <<" ">>,
       <<"\n">>,
       <<"a", "\n", "\n">>,
       <<"\n", "\n", "a">>,
       OpenTag,
       <<"<", "/", "T", "H", "I", "N", "K", ">">>,
       <<"<">>,
       <<"t", "h", "i", "n", "k", ">">>,
       <<"<", "t", "h", "i", "n", "k", ">", "s", "\n", "<", "/", "T", "h", "i", "n", "k", ">">> >>

\* every str made of at most n pieces
RECURSIVE Texts(_)
Texts(n) ==
    IF n = 0 THEN {<<>>}
    ELSE LET shorter == Texts(n - 1)
         IN  shorter \cup {t \o Pieces[i] : t \in shorter, i \in 1..Len(Pieces)}

CleanInit ==
    /\ NewManager
    /\ given_text \in Texts(MaxPieces)
    /\ cleaned_result = NoOutput
    /\ session_state = NewSession
    /\ observer = NoObserver
    /\ called = NoCall
    /\ environ = Unset
    /\ crews = NoCrews

\* cleaned_result = self._clean_output(result)
CleanOutput ==
    /\ cleaned_result = NoOutput
    /\ cleaned_result' = Some(_clean_output(given_text))
    /\ UNCHANGED <<store_vars, now, run_vars, given_text, session_state, observer, called,
                   environ, crews>>

CleanNext == CleanOutput

CleanSpec == CleanInit /\ [][CleanNext]_vars

(***************************************************************************)
(* CheckpointManager called on its own                                      *)
(***************************************************************************)
\* the outputs callers hand to save_checkpoint
Outputs == {Cleaned[r] : r \in RawOutputs}

\* a caller invokes checkpoint_manager.set_topic(t)
SetTopic(t) ==
    /\ pc = "idle"
    /\ current_topic' = t
    /\ checkpoints' = set_topic(checkpoints, t)
    /\ UNCHANGED <<now, run_vars, outside_vars>>

\* a caller invokes checkpoint_manager.save_checkpoint(task_name, output, agent_name)
SaveCheckpoint(task_name, output) ==
    /\ pc = "idle"
    /\ checkpoints' = save_checkpoint(checkpoints, current_topic, task_name, output,
                                      Role(task_name), now)
    /\ UNCHANGED <<current_topic, now, run_vars, outside_vars>>

StoreNext ==
    \/ \E i \in 1..Len(TopicList) : SetTopic(TopicList[i])
    \/ \E task_name \in Tasks, output \in Outputs : SaveCheckpoint(task_name, output)
    \/ \E i \in 1..Len(TopicList) : ClearCheckpoints(TopicList[i])
    \/ ClearCheckpoints(None)
    \/ ClearAllCheckpoints

StoreSpec == Init /\ [][StoreNext]_vars

(***************************************************************************)
(* app.py: the handlers of the Streamlit page, one browser session          *)
(***************************************************************************)
\* the topics the text input accepts: the Generate button is disabled on ""
AppTopicList == <<"A", "B">>

\* the store when "Generate Article" is clicked for t: app.py clears the
\* checkpoints of the session's topic when that differs from t
AutoCleared(cp, cur, t) ==
    IF Truthy(session_state.current_topic) /\ session_state.current_topic # t
    THEN clear_checkpoints(cp, cur, session_state.current_topic)
    ELSE cp

\* "Generate Article" is clicked with topic t and the Force Restart box at
\* force: the handler up to its call of run_with_retry, and the head of the
\* first attempt
Generate(t, force) ==
    /\ pc = "idle"
    /\ ~session_state.generation_in_progress
    /\ Truthy(t)
    /\ session_state' =
          [current_topic |-> t,
           generation_in_progress |-> TRUE,
           generated_content |->
               IF Truthy(session_state.current_topic) /\ session_state.current_topic # t
               THEN NoOutput ELSE session_state.generated_content]
    /\ topic' = t
    /\ force_restart' = force
    /\ attempt_number' = 1
    /\ pre' = Checkpointed(AutoCleared(checkpoints, current_topic, t), t)
    /\ current_topic' = t
    /\ checkpoints' = EnterStore(AutoCleared(checkpoints, current_topic, t), t, force)
    /\ stage' = 1
    /\ outputs' = NoOutputs
    /\ context' = NoOutput
    /\ exception' = "none"
    /\ attempt_calls' = <<>>
    /\ raw' = NoOutputs
    /\ pc' = "check"
    /\ UNCHANGED <<now, sleep, outcome, result, calls, completions, waits,
                   rate_limit_errors, given_text, cleaned_result, observer, called,
                   environ, crews>>

\* a handler that marks the article complete with a checkpoint 'final'
GenerateEnd_saves_final ==
    /\ pc = "done"
    /\ session_state.generation_in_progress
    /\ session_state' =
          [session_state EXCEPT
              !.generation_in_progress = FALSE,
              !.generated_content = IF outcome = "returned" THEN result ELSE @]
    /\ checkpoints' = IF outcome = "returned"
                      THEN save_checkpoint(checkpoints, current_topic, "final", result[1],
                                           Role("edit"), now)
                      ELSE checkpoints
    /\ UNCHANGED <<current_topic, now, run_vars, given_text, cleaned_result, observer,
                   called, environ, crews>>

\* a handler that keeps the result and leaves generation_in_progress as it is
GenerateEnd_keeps_flag ==
    /\ pc = "done"
    /\ session_state.generation_in_progress
    /\ session_state' =
          [session_state EXCEPT
              !.generated_content = IF outcome = "returned" THEN result ELSE @]
    /\ UNCHANGED <<store_vars, now, run_vars, given_text, cleaned_result, observer,
                   called, environ, crews>>

\* run_with_retry is back in the handler: the result is kept, or the except
\* clause reports the error
GenerateEnd ==
    /\ pc = "done"
    /\ session_state.generation_in_progress
    /\ session_state' =
          [session_state EXCEPT
              !.generation_in_progress = FALSE,
              !.generated_content = IF outcome = "returned" THEN result ELSE @]
    /\ UNCHANGED <<store_vars, now, run_vars, given_text, cleaned_result, observer,
                   called, environ, crews>>

\* the handler is over and the page is drawn again
Rerun ==
    /\ ~session_state.generation_in_progress
    /\ Finish

\* "New Article" is clicked; the button is there while generated_content is truthy
NewArticle ==
    /\ pc = "idle"
    /\ session_state.generated_content # NoOutput
    /\ session_state.generated_content[1] # <<>>
    /\ session_state' = [session_state EXCEPT !.generated_content = NoOutput,
                                              !.current_topic = None]
    /\ UNCHANGED <<store_vars, now, run_vars, given_text, cleaned_result, observer,
                   called, environ, crews>>

\* "Clear All Checkpoints" is clicked; the button is there while get_checkpoints()
\* is not empty
ClearAllButton ==
    /\ pc = "idle"
    /\ get_all_checkpoints(checkpoints, current_topic) # EmptyMap
    /\ checkpoints' = EmptyMap
    /\ current_topic' = None
    /\ session_state' = [session_state EXCEPT !.generated_content = NoOutput,
                                              !.current_topic = None]
    /\ UNCHANGED <<now, run_vars, given_text, cleaned_result, observer, called,
                   environ, crews>>

\* the task names the sidebar lists under "Task Status"
sidebar_tasks == <<"plan", "write", "edit", "final">>

\* what the sidebar shows: nothing while get_checkpoints() is empty, else
\* Completed or Pending for each listed task name
TaskStatus(cp, cur) ==
    LET shown == get_all_checkpoints(cp, cur)
    IN  IF shown = EmptyMap THEN <<>>
        ELSE [i \in 1..Len(sidebar_tasks) |->
                 IF sidebar_tasks[i] \in DOMAIN shown THEN "Completed" ELSE "Pending"]

AppNext ==
    \/ \E force \in BOOLEAN, i \in 1..Len(AppTopicList) : Generate(AppTopicList[i], force)
    \/ Skip
    \/ Invoke
    \/ \E r \in RawOutputs : ExecReturn(r)
    \/ \E e \in Exceptions : ExecRaise(e)
    \/ Retry
    \/ GenerateEnd
    \/ Rerun
    \/ NewArticle
    \/ ClearAllButton

AppSpec == Init /\ [][AppNext]_vars

(***************************************************************************)
(* A second thread reads the store while run_with_retry runs.  The threads  *)
(* interleave between any two reads or writes of an attribute or a dict;    *)
(* a reference to an inner dict (topic's task -> checkpoint) aliases the    *)
(* store's dict until clear_checkpoints takes that dict out of the store.   *)
(***************************************************************************)
ObserverTopicList == <<"A">>

\* a reference to a dict: the one the store holds under topic (live), or a dict
\* that is in the store no longer, or never was (the default {} of .get)
Alias(t) == [live |-> TRUE, topic |-> t, dict |-> EmptyMap]
Detached(d) == [live |-> FALSE, topic |-> None, dict |-> d]

\* the dict a reference points at
Deref(ref, cp) == IF ref.live THEN cp[ref.topic] ELSE ref.dict

\* self.checkpoints.get(t, {})
GetInner(cp, t) == IF t \in DOMAIN cp THEN Alias(t) ELSE Detached(EmptyMap)

\* the observer between two calls
Ready ==
    [pc |-> "ready", op |-> "none", task_name |-> "none", topic |-> None,
     inner |-> Detached(EmptyMap), seen |-> <<>>]

\* del self.checkpoints[t] seen from the observer: its reference keeps the dict
DelSeen(obs, cp, t) ==
    IF obs.inner.live /\ obs.inner.topic = t /\ t \in DOMAIN cp
    THEN [obs EXCEPT !.inner = Detached(cp[t])]
    ELSE obs

ObserverInit ==
    /\ NewManager
    /\ given_text = <<>>
    /\ cleaned_result = NoOutput
    /\ session_state = NewSession
    /\ observer = Ready
    /\ called = NoCall
    /\ environ = Unset
    /\ crews = NoCrews

\* run_with_retry is called; set_topic: self.current_topic = topic
BeginRun(t, force) ==
    /\ pc = "idle"
    /\ topic' = t
    /\ force_restart' = force
    /\ attempt_number' = 1
    /\ pre' = Checkpointed(checkpoints, t)
    /\ current_topic' = t
    /\ pc' = "set_topic"
    /\ UNCHANGED <<checkpoints, now, stage, outputs, context, sleep, exception, outcome,
                   result, calls, completions, attempt_calls, waits, raw,
                   rate_limit_errors, outside_vars>>

\* set_topic: if topic not in self.checkpoints: self.checkpoints[topic] = {}
SetTopicCreate ==
    /\ pc = "set_topic"
    /\ checkpoints' = set_topic(checkpoints, current_topic)
    /\ stage' = 1
    /\ pc' = IF force_restart THEN "clear" ELSE "check"
    /\ UNCHANGED <<current_topic, now, topic, force_restart, attempt_number, outputs,
                   context, sleep, exception, outcome, result, pre, calls, completions,
                   attempt_calls, waits, raw, rate_limit_errors, outside_vars>>

\* if force_restart: self.checkpoint_manager.clear_checkpoints(topic)
ForceClear ==
    /\ pc = "clear"
    /\ checkpoints' = clear_checkpoints(checkpoints, current_topic, topic)
    /\ observer' = DelSeen(observer, checkpoints,
                           IF Truthy(topic) THEN topic ELSE current_topic)
    /\ pc' = "check"
    /\ UNCHANGED <<current_topic, now, topic, force_restart, attempt_number, stage,
                   outputs, context, sleep, exception, outcome, result, pre, calls,
                   completions, attempt_calls, waits, raw, rate_limit_errors, given_text,
                   cleaned_result, session_state, called,
                   environ, crews>>

\* agent.execute_task returns r; cleaned_result = self._clean_output(result);
\* save_checkpoint up to self.checkpoints[self.current_topic] = {}
CleanResult(r) ==
    /\ pc = "exec"
    /\ cleaned_result' = Some(Cleaned[r])
    /\ raw' = [raw EXCEPT ![task_order[stage]] = Some(r)]
    /\ checkpoints' = IF Truthy(current_topic) THEN set_topic(checkpoints, current_topic)
                      ELSE checkpoints
    /\ pc' = "save"
    /\ UNCHANGED <<current_topic, now, topic, force_restart, attempt_number, stage,
                   outputs, context, sleep, exception, outcome, result, pre, calls,
                   completions, attempt_calls, waits, rate_limit_errors, given_text,
                   session_state, observer, called,
                   environ, crews>>

\* save_checkpoint: self.checkpoints[self.current_topic][task_name] = {...}, a
\* KeyError when the topic's dict is gone; then return cleaned_result
StoreCheckpoint ==
    /\ pc = "save"
    /\ cleaned_result' = NoOutput
    /\ IF Truthy(current_topic) /\ current_topic \notin DOMAIN checkpoints
       THEN /\ exception' = "KeyError"
            /\ outcome' = "Exception"
            /\ pc' = "done"
            /\ UNCHANGED <<checkpoints, completions, outputs, stage, result>>
       ELSE /\ checkpoints' = save_checkpoint(checkpoints, current_topic, task_order[stage],
                                              cleaned_result[1], Role(task_order[stage]), now)
            /\ completions' = [completions EXCEPT ![task_order[stage]] = Count(@)]
            /\ Advance(cleaned_result[1])
            /\ UNCHANGED exception
    /\ UNCHANGED <<current_topic, now, topic, force_restart, attempt_number, context, sleep,
                   pre, calls, attempt_calls, waits, raw, rate_limit_errors, given_text,
                   session_state, observer, called,
                   environ, crews>>

\* what the observer leaves alone: everything but its own locals
observed_vars == <<store_vars, now, run_vars, given_text, cleaned_result, session_state,
                   called, environ, crews>>

\* the observer calls has_checkpoint(task_name), get_checkpoint(task_name) or
\* get_checkpoints()
Observe(op, task_name) ==
    /\ observer.pc = "ready"
    /\ observer' = [Ready EXCEPT !.pc = "guard", !.op = op, !.task_name = task_name]
    /\ UNCHANGED observed_vars

\* if not self.current_topic: return (False, None or {})
ObserverGuard ==
    /\ observer.pc = "guard"
    /\ observer' = IF ~Truthy(current_topic)
                   THEN [observer EXCEPT !.pc = "returned"]
                   ELSE [observer EXCEPT !.pc = IF observer.op = "get_checkpoints"
                                                THEN "topic" ELSE "member"]
    /\ UNCHANGED observed_vars

\* or self.current_topic not in self.checkpoints: return (False or None)
ObserverMember ==
    /\ observer.pc = "member"
    /\ observer' = IF current_topic \notin DOMAIN checkpoints
                   THEN [observer EXCEPT !.pc = "returned"]
                   ELSE [observer EXCEPT !.pc = "topic"]
    /\ UNCHANGED observed_vars

\* the read of self.current_topic in self.checkpoints.get(self.current_topic, {})
ObserverTopic ==
    /\ observer.pc = "topic"
    /\ observer' = [observer EXCEPT !.pc = "inner", !.topic = current_topic]
    /\ UNCHANGED observed_vars

\* self.checkpoints.get(topic, {}); get_checkpoints returns that dict
ObserverInner ==
    /\ observer.pc = "inner"
    /\ observer' = [observer EXCEPT
                       !.pc = IF observer.op = "get_checkpoints" THEN "dict" ELSE "get",
                       !.topic = None,
                       !.inner = GetInner(checkpoints, observer.topic)]
    /\ UNCHANGED observed_vars

\* .get(task_name): the checkpoint has_checkpoint tests, get_checkpoint returns
ObserverGet ==
    /\ observer.pc = "get"
    /\ observer' = [observer EXCEPT
                       !.pc = "returned",
                       !.inner = Detached(EmptyMap),
                       !.seen = LET d == Deref(observer.inner, checkpoints)
                                IN  IF observer.task_name \in DOMAIN d
                                    THEN <<d[observer.task_name]>> ELSE <<>>]
    /\ UNCHANGED observed_vars

\* the caller of get_checkpoints looks a task up: if task_name in checkpoints
ObserverIn(task_name) ==
    /\ observer.pc = "dict"
    /\ observer' = IF task_name \in DOMAIN Deref(observer.inner, checkpoints)
                   THEN [observer EXCEPT !.pc = "subscript", !.task_name = task_name]
                   ELSE [observer EXCEPT !.pc = "returned", !.inner = Detached(EmptyMap)]
    /\ UNCHANGED observed_vars

\* data = checkpoints[task_name], a KeyError when the key is gone
ObserverSubscript ==
    /\ observer.pc = "subscript"
    /\ observer' = LET d == Deref(observer.inner, checkpoints)
                   IN  IF observer.task_name \in DOMAIN d
                       THEN [observer EXCEPT !.pc = "returned",
                                             !.inner = Detached(EmptyMap),
                                             !.seen = <<d[observer.task_name]>>]
                       ELSE [observer EXCEPT !.pc = "KeyError"]
    /\ UNCHANGED observed_vars

\* the observer has used what it got
ObserverDone ==
    /\ observer.pc = "returned"
    /\ observer' = Ready
    /\ UNCHANGED observed_vars

ObserverOps == {"has_checkpoint", "get_checkpoint", "get_checkpoints"}

ObserverStep ==
    \/ \E op \in ObserverOps, task_name \in Tasks : Observe(op, task_name)
    \/ ObserverGuard
    \/ ObserverMember
    \/ ObserverTopic
    \/ ObserverInner
    \/ ObserverGet
    \/ \E task_name \in Tasks : ObserverIn(task_name)
    \/ ObserverSubscript
    \/ ObserverDone

ObserverNext ==
    \/ \E force \in BOOLEAN, i \in 1..Len(ObserverTopicList) :
          BeginRun(ObserverTopicList[i], force)
    \/ SetTopicCreate
    \/ ForceClear
    \/ Skip
    \/ Invoke
    \/ \E r \in RawOutputs : CleanResult(r)
    \/ StoreCheckpoint
    \/ ExecRaise("Exception")
    \/ Finish
    \/ ObserverStep

ObserverSpec == ObserverInit /\ [][ObserverNext]_vars

(***************************************************************************)
(* A client calls the operations of one manager one after the other, in any *)
(* order and with any arguments, as test_checkpoints.py and the page do;    *)
(* called records the last call                                             *)
(***************************************************************************)
Called(op, t, task_name, output) ==
    [op |-> op, topic |-> t, task_name |-> task_name, output |-> output]

\* what a client call leaves alone besides the store and the record of the call
client_vars == <<run_vars, given_text, cleaned_result, session_state, observer, environ, crews>>

ClientSetTopic(t) ==
    /\ current_topic' = t
    /\ checkpoints' = set_topic(checkpoints, t)
    /\ called' = Called("set_topic", t, "none", NoOutput)
    /\ UNCHANGED <<now, client_vars>>

ClientSave(task_name, output) ==
    /\ checkpoints' = save_checkpoint(checkpoints, current_topic, task_name, output,
                                      Role(task_name), now)
    /\ called' = Called("save_checkpoint", None, task_name, Some(output))
    /\ UNCHANGED <<current_topic, now, client_vars>>

\* clear_checkpoints(t), and clear_checkpoints() when t is None
ClientClear(t) ==
    /\ checkpoints' = clear_checkpoints(checkpoints, current_topic, t)
    /\ called' = Called("clear_checkpoints", t, "none", NoOutput)
    /\ UNCHANGED <<current_topic, now, client_vars>>

\* a clear_all_checkpoints that leaves the active topic set
ClientClearAll_keeps_topic ==
    /\ checkpoints' = EmptyMap
    /\ called' = Called("clear_all_checkpoints", None, "none", NoOutput)
    /\ UNCHANGED <<current_topic, now, client_vars>>

ClientClearAll ==
    /\ checkpoints' = EmptyMap
    /\ current_topic' = None
    /\ called' = Called("clear_all_checkpoints", None, "none", NoOutput)
    /\ UNCHANGED <<now, client_vars>>

\* the reads that take a task name, and those that take none
TaskReads == {"has_checkpoint", "get_checkpoint"}
TopicReads == {"get_checkpoints", "get_latest_completed_task"}

\* has_checkpoint, get_checkpoint, get_checkpoints (get_all_checkpoints) or
\* get_latest_completed_task is called: none of them assigns anything
\* a read that creates the active topic's stage map when it is missing
ClientRead_creates_entry(op, task_name) ==
    /\ called' = Called(op, None, task_name, NoOutput)
    /\ checkpoints' = IF Truthy(current_topic) THEN set_topic(checkpoints, current_topic)
                      ELSE checkpoints
    /\ UNCHANGED <<current_topic, now, client_vars>>

ClientRead(op, task_name) ==
    /\ called' = Called(op, None, task_name, NoOutput)
    /\ UNCHANGED <<store_vars, now, client_vars>>

ClientNext ==
    \/ \E i \in 1..Len(TopicList) : ClientSetTopic(TopicList[i])
    \/ \E task_name \in Tasks, output \in Outputs : ClientSave(task_name, output)
    \/ \E i \in 1..Len(TopicList) : ClientClear(TopicList[i])
    \/ ClientClear(None)
    \/ ClientClearAll
    \/ \E op \in TaskReads, task_name \in Tasks : ClientRead(op, task_name)
    \/ \E op \in TopicReads : ClientRead(op, "none")

ClientSpec == Init /\ [][ClientNext]_vars

(***************************************************************************)
(* Another caller uses the same CrewManager while run_with_retry runs       *)
(***************************************************************************)
OtherTopicList == <<"A", "B">>

\* the other caller's set_topic(t), which is also the first thing its own
\* run_with_retry(t) does, falls between two steps of the run in flight
OtherSetTopic(t) ==
    /\ Running
    /\ current_topic' = t
    /\ checkpoints' = set_topic(checkpoints, t)
    /\ UNCHANGED <<now, run_vars, outside_vars>>

\* the other caller's clear_all_checkpoints() falls between two steps of the run
OtherClearAll ==
    /\ Running
    /\ checkpoints' = EmptyMap
    /\ current_topic' = None
    /\ UNCHANGED <<now, run_vars, outside_vars>>

\* the run in flight is run_with_retry("A"); the other caller works on "B"
OtherNext ==
    \/ \E force \in BOOLEAN : Call(OtherTopicList[1], force)
    \/ Step
    \/ OtherSetTopic(OtherTopicList[2])
    \/ OtherClearAll

OtherSpec == Init /\ [][OtherNext]_vars

(***************************************************************************)
(* _setup_crew hands the LLM key to the agents through os.environ: two      *)
(* CrewManagers of one process run run_with_retry with the same provider    *)
(***************************************************************************)
\* the llm_api_key argument of manager m's run_with_retry
llm_api_key(m) == <<"key1", "key2">>[m]

crew_frame == <<store_vars, now, run_vars, given_text, cleaned_result, session_state,
                observer, called>>

\* run_with_retry(topic, provider, llm_api_key, ...) is called on manager m
CrewCall(m) ==
    /\ crews[m].pc = "idle"
    /\ crews' = [crews EXCEPT ![m] = [pc |-> "setup", agents_key |-> None,
                                      used |-> [t \in Tasks |-> None]]]
    /\ UNCHANGED <<environ, crew_frame>>

\* _setup_crew: os.environ[provider_env_map[provider]] = llm_api_key
SetupCrew(m) ==
    /\ crews[m].pc = "setup"
    /\ environ' = llm_api_key(m)
    /\ crews' = [crews EXCEPT ![m].pc = "create"]
    /\ UNCHANGED crew_frame

\* create_planner_agent(), create_writer_agent(), create_editor_agent(): the
\* agents get a model name and no key; the key they find is the environment's
CreateAgents(m) ==
    /\ crews[m].pc = "create"
    /\ crews' = [crews EXCEPT ![m].pc = task_order[1], ![m].agents_key = environ]
    /\ UNCHANGED <<environ, crew_frame>>

\* agent.execute_task of the task m stands at: the LLM client uses the key the
\* environment held when the agent was created, or the key it holds now
ExecuteTask(m) ==
    /\ crews[m].pc \in Tasks
    /\ \E key \in {crews[m].agents_key, environ} :
           crews' = [crews EXCEPT
                        ![m].used[crews[m].pc] = key,
                        ![m].pc = IF Index(crews[m].pc) = Len(task_order) THEN "done"
                                  ELSE task_order[Index(crews[m].pc) + 1]]
    /\ UNCHANGED <<environ, crew_frame>>

\* run_with_retry is back with its caller
CrewReturn(m) ==
    /\ crews[m].pc = "done"
    /\ crews' = [crews EXCEPT ![m].pc = "idle"]
    /\ UNCHANGED <<environ, crew_frame>>

CrewNext ==
    \E m \in Managers :
        \/ CrewCall(m)
        \/ SetupCrew(m)
        \/ CreateAgents(m)
        \/ ExecuteTask(m)
        \/ CrewReturn(m)

CrewSpec == Init /\ [][CrewNext]_vars

(***************************************************************************)
(* Properties                                                               *)
(***************************************************************************)


\* the task sets that are a prefix of task_order
Prefixes == {{task_order[i] : i \in 1..n} : n \in 0..Len(task_order)}

\* C1: within one invocation of run_with_retry, whatever force_restart is, a
\* retry never executes again a task whose executor already completed in an
\* earlier attempt: no executor is in flight for a task that has completed, and
\* no task completes (is checkpointed) more than once.
C1_RetryNeverReexecutes ==
    /\ pc = "exec" => completions[task_order[stage]] = 0
    /\ \A task \in Tasks : completions[task] <= 1

\* C2: when an invocation has ended in an error of any kind, every task whose
\* executor completed in any of its attempts has its checkpoint in the store
\* under the invocation's topic.
C2_FailedRunKeepsCompleted ==
    Failed =>
        \A task \in Tasks :
            completions[task] >= 1 => task \in Checkpointed(checkpoints, topic)

\* C3: an invocation with force_restart = False that was called with plan,
\* write and edit all checkpointed for its topic invokes no executor, sleeps for
\* no retry, fails with no error, and returns the output of the edit checkpoint.
C3_IdempotentCacheHit ==
    (pc # "idle" /\ ~force_restart /\ pre = Tasks) =>
        /\ \A task \in Tasks : calls[task] = 0
        /\ pc \in {"check", "done"}
        /\ pc = "done" =>
              /\ outcome = "returned"
              /\ "edit" \in Checkpointed(checkpoints, topic)
              /\ result = Some(checkpoints[topic]["edit"].output)

\* C3's case: a cache hit has returned an edit output that differs from the
\* plan output stored with it
C3_Witness ==
    /\ Returned /\ ~force_restart /\ pre = Tasks
    /\ checkpoints[topic]["edit"].output # checkpoints[topic]["plan"].output

\* the tasks of task_order outside done, in sequence order
RECURSIVE Remaining(_, _)
Remaining(done, i) ==
    IF i > Len(task_order) THEN <<>>
    ELSE (IF task_order[i] \in done THEN <<>> ELSE <<task_order[i]>>)
         \o Remaining(done, i + 1)

\* the executor invocations of the attempt follow task_order, none twice
InSequenceOrder(invoked) ==
    \A i, j \in 1..Len(invoked) : i < j => Index(invoked[i]) < Index(invoked[j])

\* C4 as claimed: an invocation with force_restart = False that was called with
\* a proper prefix of the tasks checkpointed has, when it returns, invoked the
\* executor of no checkpointed task and of every remaining task exactly once,
\* in sequence order, and returns the cleaned result of the edit executor.
C4_ResumeInvokesEachOnce ==
    (Returned /\ ~force_restart /\ pre # Tasks) =>
        /\ \A task \in pre : calls[task] = 0
        /\ \A task \in Tasks \ pre : calls[task] = 1
        /\ InSequenceOrder(attempt_calls)
        /\ raw["edit"] # NoOutput
        /\ result = Some(_clean_output(raw["edit"][1]))

\* C4 amended: such an invocation never invokes the executor of a task that was
\* checkpointed when it was called; every attempt invokes executors in sequence
\* order, each at most once; when it returns, every remaining task has been
\* invoked and the value returned is the cleaned result of the edit executor;
\* and when it returns from its first attempt (no executor raised) it has
\* invoked exactly the remaining tasks, each once, in order.
C4_ResumeSkipsCompleted ==
    (pc # "idle" /\ ~force_restart /\ pre # Tasks) =>
        /\ \A task \in pre : calls[task] = 0
        /\ InSequenceOrder(attempt_calls)
        /\ Returned =>
              /\ \A task \in Tasks \ pre : calls[task] >= 1
              /\ raw["edit"] # NoOutput
              /\ result = Some(_clean_output(raw["edit"][1]))
              /\ attempt_number = 1 =>
                    /\ attempt_calls = Remaining(pre, 1)
                    /\ \A task \in Tasks \ pre : calls[task] = 1

\* C4's case: a run resumed after plan has returned, from its first attempt, a
\* result that cleaning changed
C4_Witness ==
    /\ Returned /\ ~force_restart /\ pre = {"plan"} /\ attempt_number = 1
    /\ attempt_calls = <<"write", "edit">>
    /\ result # raw["edit"]

\* what the store holds under topic t: <<>> when t is no key of it
Entry(cp, t) == IF t \in DOMAIN cp THEN <<cp[t]>> ELSE <<>>

\* C5: an invocation with force_restart = True starts every attempt with no
\* checkpoint under its topic, so it reuses none that existed before the call
\* (it skips no task), it has executed all three tasks when it returns, and no
\* step of it changes what the store holds under any other topic.
C5_ForceRestartClearsOnlyTarget ==
    /\ [](force_restart =>
            /\ (pc = "check" /\ stage = 1) => Checkpointed(checkpoints, topic) = {}
            /\ \A task \in Tasks :
                  outputs[task] # NoOutput => raw[task] # NoOutput
            /\ Returned => attempt_calls = task_order)
    /\ [][force_restart' =>
            \A t \in (Topics \ {topic'}) : Entry(checkpoints', t) = Entry(checkpoints, t)]_vars

\* C5's case: a forced restart of A, called with checkpoints stored for A and
\* for B, has returned
C5_Witness ==
    /\ Returned /\ force_restart /\ topic = "A" /\ pre = Tasks
    /\ Checkpointed(checkpoints, "B") = {"plan", "write"}

\* C6: when an executor has raised an error that is no rate-limit error, the
\* invocation is over with no executor of a later task invoked in that attempt,
\* and every task before the failing one still has its checkpoint.
C6_FatalErrorHaltsPipeline ==
    exception = "Exception" =>
        /\ pc = "done"
        /\ \A i \in 1..Len(task_order) :
              /\ i > stage => \A k \in 1..Len(attempt_calls) : attempt_calls[k] # task_order[i]
              /\ i < stage => task_order[i] \in Checkpointed(checkpoints, topic)

\* C7: under every topic the checkpointed tasks are a prefix of task_order.
C7_SequentialOrdering ==
    \A t \in DOMAIN checkpoints : DOMAIN checkpoints[t] \in Prefixes

\* C7's case: after runs and clears, one topic holds plan and write only while
\* another holds all three
C7_Witness ==
    /\ pc = "idle"
    /\ Checkpointed(checkpoints, "A") = {"plan", "write"}
    /\ Checkpointed(checkpoints, "B") = Tasks

\* C8: an invocation makes at most RETRY_MAX_ATTEMPTS attempts; it waits for a
\* new attempt only after a RateLimitError; any other error ends it at once;
\* and the attempt number only grows by one, from a backoff sleep.
C8_BoundedSelectiveRetry ==
    /\ [](/\ attempt_number <= 5
          /\ pc = "sleep" => exception = "RateLimitError" /\ attempt_number < 5
          /\ exception = "Exception" => Failed /\ outcome = "Exception"
          /\ attempt_number > 1 => rate_limit_errors >= attempt_number - 1)
    /\ [][attempt_number' > attempt_number /\ pc # "idle" =>
             /\ pc = "sleep"
             /\ exception = "RateLimitError"
             /\ attempt_number' = attempt_number + 1]_vars

\* C8's case: the fifth attempt has ended with a RateLimitError and the
\* invocation has given up
C8_Witness ==
    pc = "done" /\ outcome = "RetryError" /\ attempt_number = 5 /\ rate_limit_errors = 5

\* C9 as claimed: the wait after failed attempt n is
\* min(max_wait, min_wait * multiplier ^ (n - 1)): 4, 8, 16, 32.
C9_WaitIsMinWaitTimesPower ==
    \A n \in 1..Len(waits) :
        waits[n] = Min2(RETRY_MAX_WAIT, RETRY_MIN_WAIT * RETRY_MULTIPLIER ^ (n - 1))

\* C9 amended: the wait after failed attempt n is
\* max(min_wait, min(max_wait, multiplier * 2 ^ (n - 1))): 4, 4, 8, 16.
C9_BackoffSchedule ==
    /\ Len(waits) <= 4
    /\ \A n \in 1..Len(waits) : waits[n] = <<4, 4, 8, 16>>[n]
    /\ pc = "sleep" => sleep = waits[Len(waits)] /\ Len(waits) = attempt_number

\* C9's case: all four waits of an invocation have been taken
C9_Witness ==
    Len(waits) = 4 /\ pc = "check"

\* C10: every invocation in flight comes to an end, and one that has ended
\* after fewer than RETRY_MAX_ATTEMPTS RateLimitErrors in all, on whatever
\* tasks, and no other error has returned the edit output.
C10_RetryEventuallyCompletes ==
    /\ Running ~> (pc = "done")
    /\ [](pc = "done" /\ rate_limit_errors < RETRY_MAX_ATTEMPTS /\ exception # "Exception" =>
            /\ outcome = "returned"
            /\ outputs["edit"] # NoOutput
            /\ result = outputs["edit"])

\* C10's case: an invocation has returned after four RateLimitErrors raised by
\* more than one task
C10_Witness ==
    /\ Returned /\ rate_limit_errors = RETRY_MAX_ATTEMPTS - 1
    /\ calls["plan"] = 2 /\ calls["write"] = 2 /\ calls["edit"] = 2

\* the tasks whose executor was invoked in the attempt
Invoked == {attempt_calls[k] : k \in 1..Len(attempt_calls)}

\* C11: run_with_retry returns only when its last attempt raised nothing, and
\* then the value is the edit output, cleaned from what the edit executor
\* returned in that attempt or read from the edit checkpoint; when the last
\* attempt's executor raised (a RateLimitError on attempt RETRY_MAX_ATTEMPTS,
\* any other error on any attempt) the invocation ends in an error and hands
\* the caller no value.
C11_ErrorsNeverSwallowed ==
    /\ Returned =>
          /\ exception = "none"
          /\ result # NoOutput /\ result = outputs["edit"]
          /\ IF "edit" \in Invoked
             THEN raw["edit"] # NoOutput /\ result = Some(_clean_output(raw["edit"][1]))
             ELSE /\ has_checkpoint(checkpoints, current_topic, "edit")
                  /\ result = Some(get_checkpoint(checkpoints, current_topic, "edit")[1].output)
    /\ (exception = "Exception"
          \/ (exception = "RateLimitError" /\ attempt_number = RETRY_MAX_ATTEMPTS)) =>
          /\ Failed
          /\ outcome = (IF exception = "Exception" THEN "Exception" ELSE "RetryError")
          /\ result = NoOutput
    /\ (pc = "done" /\ exception # "none") => Failed /\ result = NoOutput

\* C11's case: the last allowed attempt was rate-limited in edit, after plan and
\* write had produced their outputs, and the invocation has ended in an error
C11_Witness ==
    /\ Failed /\ outcome = "RetryError" /\ stage = 3
    /\ outputs["plan"] # NoOutput /\ outputs["write"] # NoOutput
    /\ result = NoOutput

\* C12: when run_with_retry has returned, for any topic string, the store holds
\* under that topic exactly the checkpoints plan, write and edit, and the value
\* returned is the output stored in the edit checkpoint.
C12_ReturnLeavesThreeCheckpoints ==
    Returned =>
        /\ Checkpointed(checkpoints, topic) = Tasks
        /\ result = Some(checkpoints[topic]["edit"].output)

\* C13: for any topic string, while the executor of write (of edit) is invoked,
\* has_checkpoint('plan') (has_checkpoint('write')) is true for the topic.
C13_PreviousStageCheckpointed ==
    (pc = "exec" /\ stage > 1) =>
        has_checkpoint(checkpoints, current_topic, task_order[stage - 1])

\* C14: whenever the write or the edit executor is invoked, the context it
\* receives is the cleaned output of the task before it, whatever that output
\* is, the empty string included.
C14_ContextIsPreviousOutput ==
    (pc = "exec" /\ stage > 1) =>
        /\ outputs[task_order[stage - 1]] # NoOutput
        /\ context = outputs[task_order[stage - 1]]

\* C15: every checkpoint output written in the attempt is _clean_output of
\* what the executor of that task returned, every output in the store is a
\* cleaned one, and the value returned after the edit executor ran is
\* _clean_output of its result: nothing uncleaned is stored or returned.
C15_SanitizeBeforeStore ==
    /\ \A task \in Tasks :
          (raw[task] # NoOutput /\ Truthy(current_topic)) =>
              /\ task \in Checkpointed(checkpoints, current_topic)
              /\ checkpoints[current_topic][task].output = Cleaned[raw[task][1]]
    /\ \A t \in DOMAIN checkpoints : \A task \in DOMAIN checkpoints[t] :
          \E r \in RawOutputs : checkpoints[t][task].output = Cleaned[r]
    /\ \A task \in Tasks :
          (raw[task] # NoOutput /\ outputs[task] # NoOutput) =>
              outputs[task] = Some(Cleaned[raw[task][1]])
    /\ (Returned /\ raw["edit"] # NoOutput) => result = Some(Cleaned[raw["edit"][1]])

\* C15's case: a run has returned with checkpoints whose outputs cleaning
\* changed, one of them to the empty string
C15_Witness ==
    /\ Returned /\ topic = "A" /\ attempt_calls = task_order
    /\ raw["plan"] # raw["edit"]
    /\ \A task \in Tasks : checkpoints["A"][task].output # raw[task][1]
    /\ checkpoints["A"]["plan"].output = <<>>

\* the marker pat occurs in s, in any letter case
Contains(s, pat) == \E i \in 1..Len(s) : MatchAt(s, i, pat)

\* C16: for every input str, what _clean_output returns contains no '<think>'
\* and no '</think>' in any letter case.
C16_NoMarkerInOutput ==
    cleaned_result # NoOutput =>
        /\ ~Contains(cleaned_result[1], OpenTag)
        /\ ~Contains(cleaned_result[1], CloseTag)

\* the lengths of the maximal runs of newlines of s, from position i on
RECURSIVE NewlineRuns(_, _)
NewlineRuns(s, i) ==
    IF i > Len(s) THEN <<>>
    ELSE IF s[i] = "\n" THEN <<NewlineRun(s, i)>> \o NewlineRuns(s, i + NewlineRun(s, i))
    ELSE NewlineRuns(s, i + 1)

\* s without its newlines
NoNewlines(s) == SelectSeq(s, LAMBDA c : c # "\n")

\* C17: what _clean_output returns has no run of three or more newlines (no two
\* blank lines in a row) and no leading or trailing whitespace; between the
\* first and the last visible character of the text left once the markers are
\* removed, every run of newlines of length three or more has become exactly
\* two newlines (one blank line), shorter runs and all other characters are
\* kept; all this whether the run stood in the input or arose from removing a
\* block.
C17_BlankLinesCollapsedAndTrimmed ==
    cleaned_result # NoOutput =>
        LET out == cleaned_result[1]
            unmarked == strip(SubTags(SubBlocks(given_text, 1), 1))
            before == NewlineRuns(unmarked, 1)
            after == NewlineRuns(out, 1)
        IN  /\ \A i \in 1..Len(out) : NewlineRun(out, i) < 3
            /\ out # <<>> => out[1] \notin Whitespace /\ out[Len(out)] \notin Whitespace
            /\ Len(after) = Len(before)
            /\ \A k \in 1..Len(after) : after[k] = Min2(before[k], 2)
            /\ NoNewlines(out) = NoNewlines(unmarked)

\* C17's case: two blank-line runs of two newlines each, with a block that
\* spans a line between them, have come out as one blank line
C17_Witness ==
    /\ given_text = Pieces[4] \o Pieces[10] \o Pieces[5]
    /\ cleaned_result = Some(<<"a", "\n", "\n", "a">>)

\* the store with every topic but t taken out
Only(cp, t) == [x \in DOMAIN cp \cap {t} |-> cp[x]]

\* what the four reads return for the active topic cur on the store cp
Reads(cp, cur) ==
    [has |-> [task \in Tasks |-> has_checkpoint(cp, cur, task)],
     get |-> [task \in Tasks |-> get_checkpoint(cp, cur, task)],
     all |-> get_all_checkpoints(cp, cur),
     latest |-> get_latest_completed_task(cp, cur)]

\* the checkpoints the store holds under topic t, by task
Held(cp, t) == IF t \in DOMAIN cp THEN cp[t] ELSE EmptyMap

\* C18: the reads made while a topic B is active return what they would return
\* were B's the only entry of the store, so never a checkpoint stored under
\* another topic A; and no step that is set_topic(B), clear_checkpoints(B) or a
\* save made while B is active adds, changes or removes a checkpoint of any A # B.
C18_TopicIsolation ==
    /\ [](Reads(checkpoints, current_topic)
            = Reads(Only(checkpoints, current_topic), current_topic))
    /\ [][\A B \in Topics :
            (\/ SetTopic(B)
             \/ ClearCheckpoints(B)
             \/ (current_topic = B
                   /\ \E task_name \in Tasks, output \in Outputs :
                         SaveCheckpoint(task_name, output)))
            => \A A \in Topics \ {B} : Held(checkpoints', A) = Held(checkpoints, A)]_vars

\* C19: a step that starts a generation, for whatever topic, leaves the
\* checkpoints of every other topic in the store: neither the handler nor
\* run_with_retry, forced or not, clears a topic the user did not name.
C19_SwitchKeepsOtherTopics ==
    [][(~session_state.generation_in_progress /\ session_state'.generation_in_progress) =>
          \A t \in Topics \ {topic'} : Held(checkpoints', t) = Held(checkpoints, t)]_vars

\* a checkpoint with output, agent, timestamp and completed = True
Complete(c) ==
    /\ DOMAIN c = {"output", "agent", "timestamp", "completed"}
    /\ c.completed = TRUE

\* C20: at every point of every interleaving of an observer thread with a run
\* that saves checkpoints, each checkpoint the observer can get at (in the
\* store, in a dict it holds a reference to, or returned to it) is complete,
\* and neither the observer nor the run has raised a KeyError.
C20_AtomicVisibility ==
    /\ \A t \in DOMAIN checkpoints : \A task \in DOMAIN checkpoints[t] :
          Complete(checkpoints[t][task])
    /\ \A task \in DOMAIN Deref(observer.inner, checkpoints) :
          Complete(Deref(observer.inner, checkpoints)[task])
    /\ observer.seen # <<>> => Complete(observer.seen[1])
    /\ observer.pc # "KeyError"
    /\ exception # "KeyError"

\* C20's case: the observer has read the write checkpoint out of the dict
\* get_checkpoints handed it, while the run is about to store the edit checkpoint
C20_Witness ==
    /\ observer.pc = "returned" /\ observer.op = "get_checkpoints"
    /\ observer.seen # <<>> /\ observer.seen[1].agent = Role("write")
    /\ pc = "save" /\ stage = 3

\* C21: while another caller's set_topic, run_with_retry or
\* clear_all_checkpoints interleaves with a run_with_retry(T) in flight, every
\* step in which an executor of the run completes leaves that task's checkpoint
\* in the store under T, and changes the checkpoints of no other topic.
C21_TopicBindingUnderInterleaving ==
    [][(\E r \in RawOutputs : ExecReturn(r)) =>
          /\ task_order[stage] \in Checkpointed(checkpoints', topic)
          /\ \A t \in Topics \ {topic} : Held(checkpoints', t) = Held(checkpoints, t)]_vars

\* C22: immediately after save_checkpoint(task_name, output, agent),
\* has_checkpoint(task_name) is true and get_checkpoint(task_name) is a
\* checkpoint with exactly that output and agent, whatever was stored before
\* and also on a manager on which set_topic was never called.
C22_SaveAlwaysTakesEffect ==
    called.op = "save_checkpoint" =>
        /\ has_checkpoint(checkpoints, current_topic, called.task_name)
        /\ get_checkpoint(checkpoints, current_topic, called.task_name) # <<>>
        /\ get_checkpoint(checkpoints, current_topic, called.task_name)[1].output = called.output[1]
        /\ get_checkpoint(checkpoints, current_topic, called.task_name)[1].agent = Role(called.task_name)

\* the tasks of the active topic that has_checkpoint reports
Completed == {task \in Tasks : has_checkpoint(checkpoints, current_topic, task)}

\* C23: get_latest_completed_task returns the completed task of the active
\* topic that stands last in (plan, write, edit), None when the topic has no
\* completed checkpoint or no topic is set, and plan when only plan is there.
C23_LatestCompletedTask ==
    LET latest == get_latest_completed_task(checkpoints, current_topic)
    IN  /\ Completed = {} => latest = None
        /\ current_topic = None => latest = None
        /\ Completed # {} => /\ latest \in Completed
                             /\ \A task \in Completed : Index(task) <= Index(latest)
        /\ Completed = {"plan"} => latest = "plan"

C23_Witness ==
    /\ called.op = "get_latest_completed_task"
    /\ Completed = {"plan", "edit"}

\* C24: clear_checkpoints(topic) removes every stage entry of that topic and
\* nothing else: the topic's checkpoints are empty afterwards, every other
\* topic's checkpoints and the active topic are as before.
C24_ClearOneTopicOnly ==
    [][\A i \in 1..Len(TopicList) :
          ClientClear(TopicList[i]) =>
              /\ Held(checkpoints', TopicList[i]) = EmptyMap
              /\ \A t \in Topics \ {TopicList[i]} : Held(checkpoints', t) = Held(checkpoints, t)
              /\ current_topic' = current_topic]_vars

\* what the four reads return when nothing is stored for the active topic
NoReads ==
    [has |-> [task \in Tasks |-> FALSE],
     get |-> [task \in Tasks |-> <<>>],
     all |-> EmptyMap,
     latest |-> None]

\* C25: clear_all_checkpoints removes the checkpoints of every topic and resets
\* the active topic; until the next set_topic the four reads find nothing, and
\* the next set_topic, on any topic, sees no checkpoints.
C25_ClearAllResets ==
    /\ [](called.op = "clear_all_checkpoints" =>
             /\ checkpoints = EmptyMap
             /\ current_topic = None)
    /\ [](current_topic = None =>
             /\ \A t \in Topics : Held(checkpoints, t) = EmptyMap
             /\ Reads(checkpoints, current_topic) = NoReads)
    /\ [][\A i \in 1..Len(TopicList) :
             (current_topic = None /\ ClientSetTopic(TopicList[i])) =>
                 Reads(checkpoints', current_topic') = NoReads]_vars

C25_Witness ==
    /\ called.op = "clear_all_checkpoints"
    /\ current_topic = None
    /\ checkpoints = EmptyMap

\* C26: set_topic(T) applied twice leaves the store as applied once; for an
\* unseen topic it creates an empty stage map, for a topic that has
\* checkpoints it leaves them, and those of every other topic, unchanged.
C26_SetTopicIdempotent ==
    /\ [](called.op = "set_topic" =>
             /\ current_topic = called.topic
             /\ called.topic \in DOMAIN checkpoints
             /\ set_topic(checkpoints, called.topic) = checkpoints)
    /\ [][\A i \in 1..Len(TopicList) :
             ClientSetTopic(TopicList[i]) =>
                 /\ DOMAIN checkpoints' = DOMAIN checkpoints \cup {TopicList[i]}
                 /\ \A t \in Topics : Held(checkpoints', t) = Held(checkpoints, t)]_vars

C26_Witness ==
    /\ called.op = "set_topic"
    /\ Held(checkpoints, called.topic) # EmptyMap

\* C27: every checkpoint in the store has completed = True together with an
\* output, an agent label and a timestamp, so has_checkpoint(task) is true
\* exactly when the task is a key of get_all_checkpoints() of the active topic.
C27_NeverPartial ==
    /\ \A t \in DOMAIN checkpoints : \A n \in DOMAIN checkpoints[t] :
           Complete(checkpoints[t][n])
    /\ \A task \in Tasks :
           has_checkpoint(checkpoints, current_topic, task)
               <=> task \in DOMAIN get_all_checkpoints(checkpoints, current_topic)

C27_Witness ==
    /\ called.op = "save_checkpoint"
    /\ "write" \in DOMAIN get_all_checkpoints(checkpoints, current_topic)
    /\ "plan" \notin DOMAIN get_all_checkpoints(checkpoints, current_topic)

\* C28: a checkpoint that exists for (topic, task) keeps its output, agent and
\* timestamp for as long as it is there, and run_with_retry never calls the
\* executor for a task that has a checkpoint.
C28_CheckpointImmutable ==
    /\ [](pc = "exec" => ~has_checkpoint(checkpoints, current_topic, task_order[stage]))
    /\ [][\A t \in Topics : \A n \in Checkpointed(checkpoints, t) \cap Checkpointed(checkpoints', t) :
             checkpoints'[t][n] = checkpoints[t][n]]_vars

C28_Witness ==
    /\ pc = "exec"
    /\ stage = 2
    /\ "plan" \in pre
    /\ has_checkpoint(checkpoints, current_topic, "plan")
    /\ attempt_number = 2

\* C29: with no active topic (a new manager, or after clear_all_checkpoints)
\* get_all_checkpoints is empty, has_checkpoint is false, get_checkpoint and
\* get_latest_completed_task are None.
C29_ReadsWithoutTopic ==
    current_topic = None =>
        /\ get_all_checkpoints(checkpoints, current_topic) = EmptyMap
        /\ get_latest_completed_task(checkpoints, current_topic) = None
        /\ \A task \in Tasks :
               /\ ~has_checkpoint(checkpoints, current_topic, task)
               /\ get_checkpoint(checkpoints, current_topic, task) = <<>>

C29_Witness ==
    /\ called.op \in TaskReads \cup TopicReads
    /\ current_topic = None

\* the position of the first task of task_order that is not in done
FirstAbsent(done) ==
    CHOOSE i \in 1..(Len(task_order) + 1) :
        /\ \A j \in 1..(i - 1) : task_order[j] \in done
        /\ i <= Len(task_order) => task_order[i] \notin done

\* C30: get_checkpoints returns for the active topic exactly the tasks with a
\* completed checkpoint, each with its agent label and timestamp, so the next
\* task to run is the first of (plan, write, edit) absent from it; the four
\* reads change neither the stored checkpoints nor the active topic.
C30_ObservationReadOnlyExact ==
    /\ [](LET all == get_all_checkpoints(checkpoints, current_topic)
          IN  /\ DOMAIN all = Completed
              /\ \A task \in DOMAIN all :
                     /\ {"agent", "timestamp"} \subseteq DOMAIN all[task]
                     /\ all[task].agent = Role(task)
                     /\ all[task].timestamp = now
              /\ FirstAbsent(DOMAIN all) = FirstAbsent(Completed))
    /\ [][(called' # called /\ called'.op \in TaskReads \cup TopicReads) =>
             UNCHANGED store_vars]_vars

C30_Witness ==
    /\ called.op = "get_checkpoints"
    /\ DOMAIN get_all_checkpoints(checkpoints, current_topic) = {"plan", "edit"}

\* C31: every invocation of run_with_retry in flight comes to an end, after at
\* most RETRY_MAX_ATTEMPTS attempts, at most RETRY_MAX_ATTEMPTS - 1 backoff
\* waits and at most 3 executor invocations in each attempt.
C31_Termination ==
    /\ (pc # "idle") ~> (pc = "done")
    /\ [](/\ attempt_number <= RETRY_MAX_ATTEMPTS
          /\ Len(waits) <= RETRY_MAX_ATTEMPTS - 1
          /\ Len(waits) <= rate_limit_errors
          /\ Len(attempt_calls) <= Len(task_order)
          /\ \A i, j \in 1..Len(attempt_calls) : i # j => attempt_calls[i] # attempt_calls[j])

\* C31's case: the last attempt allowed has called all three executors and the
\* invocation has ended
C31_Witness ==
    /\ pc = "done"
    /\ attempt_number = RETRY_MAX_ATTEMPTS
    /\ Len(waits) = RETRY_MAX_ATTEMPTS - 1
    /\ Len(attempt_calls) = Len(task_order)

\* C34: every backoff wait of an invocation lies between RETRY_MIN_WAIT and
\* RETRY_MAX_WAIT seconds inclusive, and the waits of one invocation never
\* decrease; so does the wait computed for any attempt number.
C34_WaitsBoundedNonDecreasing ==
    /\ \A n \in 1..Len(waits) :
           /\ RETRY_MIN_WAIT <= waits[n] /\ waits[n] <= RETRY_MAX_WAIT
           /\ n > 1 => waits[n - 1] <= waits[n]
    /\ pc = "sleep" => RETRY_MIN_WAIT <= sleep /\ sleep <= RETRY_MAX_WAIT
    /\ \A n \in 1..MaxAttemptNumber :
           /\ RETRY_MIN_WAIT <= wait_exponential(n) /\ wait_exponential(n) <= RETRY_MAX_WAIT
           /\ n > 1 => wait_exponential(n - 1) <= wait_exponential(n)

\* C34's case: an invocation has ended after all its backoff waits
C34_Witness ==
    /\ pc = "done"
    /\ Len(waits) = RETRY_MAX_ATTEMPTS - 1
    /\ waits[1] < waits[Len(waits)]

\* C32: _clean_output is idempotent: cleaning a cleaned str again gives the
\* same str, _clean_output(_clean_output(x)) = _clean_output(x).
C32_CleanOutputIdempotent ==
    cleaned_result # NoOutput => _clean_output(cleaned_result[1]) = cleaned_result[1]

\* C33: when the run_with_retry invocations of two CrewManagers of one process,
\* with the same provider and different llm_api_key values, interleave, every
\* task a run executes uses the llm_api_key passed to that run.
C33_CredentialIsolation ==
    \A m \in Managers : \A t \in Tasks :
        crews[m].used[t] \in {None, llm_api_key(m)}

\* C35: checkpoints are written under plan, write and edit only; no 'final'
\* key is ever written, so the sidebar never reports 'final' Completed:
\* wherever it lists the tasks, a successful run included, 'final' is Pending.
C35_FinalNeverCompleted ==
    /\ \A t \in DOMAIN checkpoints : DOMAIN checkpoints[t] \subseteq {"plan", "write", "edit"}
    /\ "final" \notin DOMAIN get_all_checkpoints(checkpoints, current_topic)
    /\ TaskStatus(checkpoints, current_topic) # <<>> =>
           TaskStatus(checkpoints, current_topic)[4] = "Pending"
    /\ (Returned /\ ~session_state.generation_in_progress) =>
           TaskStatus(checkpoints, current_topic) = <<"Completed", "Completed", "Completed", "Pending">>

\* C35's case: a run has returned the article, the handler has stored it and
\* the sidebar lists the three tasks Completed
C35_Witness ==
    /\ Returned
    /\ ~session_state.generation_in_progress
    /\ session_state.generated_content = result
    /\ TaskStatus(checkpoints, current_topic) = <<"Completed", "Completed", "Completed", "Pending">>

\* C36: generation_in_progress is True from before run_with_retry is called
\* until the handler's step after it, and False once the handler has finished,
\* whether run_with_retry returned or raised.
C36_InProgressFlagReset ==
    /\ [](/\ Running => session_state.generation_in_progress
          /\ pc = "idle" => ~session_state.generation_in_progress)
    /\ [][(pc = "done" /\ pc' = "done" /\ session_state' # session_state) =>
             ~session_state'.generation_in_progress]_vars
    /\ [][(pc # "idle" /\ pc' = "idle") => ~session_state.generation_in_progress]_vars

\* C36's case: the retries are exhausted, run_with_retry has raised and the
\* except clause of the handler has run
C36_Witness ==
    /\ pc = "done"
    /\ outcome = "RetryError"
    /\ ~session_state.generation_in_progress

====
